---- MODULE Spec2Model ----
(***************************************************************************)
(* A model of tokinotify: the INotify channel manager (src/src/lib.rs) and *)
(* the Mask flag word (src/src/mask.rs).                                   *)
(*                                                                         *)
(* A 32-bit word (u32) is kept as its two 16-bit halves [hi, lo], because  *)
(* the model checker's integers are signed 32-bit: 0x80000000 would not    *)
(* fit.  A c_int (i32) fits and is kept as an integer.  A byte is 0..255.  *)
(***************************************************************************)
EXTENDS Integers, Sequences, FiniteSets, TLC

VARIABLES
    cfg,      \* the kernel side: which records the kernel queued, and after
              \* how many bytes the byte stream closes
    pos,      \* bytes of the stream consumed so far through self.file
    watches,  \* kernel side: the watch descriptors currently registered
    closeLog, \* kernel side: the descriptors passed to an OS-level close
    life,     \* "none" | "failed" | "open" | "closed" | "dropped"
    self,     \* the INotify struct: [fd, file], file = [fd, owned]
    pc,       \* position of the watch() future: "idle" | "header" | "name" | "panic"
    buffer,   \* watch(): the 16-byte header buffer
    amt,      \* watch(): bytes accumulated in the current phase
    header,   \* watch(): the transmuted EventHeader
    namebuf,  \* watch(): the bytes written so far to the 0x1000-byte name
              \* buffer (the rest of that buffer is still zero)
    ret,      \* what the last operation returned
    hist,     \* history of the current/last watch() call (observation only)
    mk        \* the Mask operands and the result of the last Mask operation

vars == <<cfg, pos, watches, closeLog, life, self, pc, buffer, amt, header,
          namebuf, ret, hist, mk>>

(***************************************************************************)
(* Bounds of the model.                                                    *)
(***************************************************************************)
MaxRecords == 2   \* small records queued by the kernel
MaxChunk == 2     \* a partial read delivers 1..MaxChunk bytes, or all it can
SplitPoint == 10  \* ... or exactly this many bytes
NameCut == 20     \* a truncated stream closes SplitPoint or NameCut bytes into
                  \* its last record
MaxFaults == 1    \* watch() calls cut short (cancelled, or a read error)
PartialZone == 4  \* partial reads are enumerated while fewer than this many
                  \* bytes of the phase are accumulated; later reads deliver
                  \* all they can

(***************************************************************************)
(* 32-bit words.                                                           *)
(***************************************************************************)
W(hi, lo) == [hi |-> hi, lo |-> lo]

RECURSIVE And16(_, _, _)
And16(a, b, n) ==
    IF n = 0 THEN 0
    ELSE (IF a % 2 = 1 /\ b % 2 = 1 THEN 1 ELSE 0)
         + 2 * And16(a \div 2, b \div 2, n - 1)

RECURSIVE Or16(_, _, _)
Or16(a, b, n) ==
    IF n = 0 THEN 0
    ELSE (IF a % 2 = 1 \/ b % 2 = 1 THEN 1 ELSE 0)
         + 2 * Or16(a \div 2, b \div 2, n - 1)

\* u32 & u32, u32 | u32
AndU32(a, b) == W(And16(a.hi, b.hi, 16), And16(a.lo, b.lo, 16))
OrU32(a, b) == W(Or16(a.hi, b.hi, 16), Or16(a.lo, b.lo, 16))

(***************************************************************************)
(* mask.rs: the named flags.                                               *)
(***************************************************************************)
ACCESS == W(\h0000, \h0001)
MODIFY == W(\h0000, \h0002)
ATTRIB == W(\h0000, \h0004)
CLOSE_WRITE == W(\h0000, \h0008)
CLOSE_NOWRITE == W(\h0000, \h0010)
OPEN == W(\h0000, \h0020)
MOVED_FROM == W(\h0000, \h0040)
MOVED_TO == W(\h0000, \h0080)
CREATE == W(\h0000, \h0100)
DELETE == W(\h0000, \h0200)
DELETE_SELF == W(\h0000, \h0400)
MOVE_SELF == W(\h0000, \h0800)
UNMOUNT == W(\h0000, \h2000)
Q_OVERFLOW == W(\h0000, \h4000)
IGNORED == W(\h0000, \h8000)
CLOSE == OrU32(CLOSE_WRITE, CLOSE_NOWRITE)
MOVE == OrU32(MOVED_TO, MOVED_FROM)
ONLYDIR == W(\h0100, \h0000)
DONT_FOLLOW == W(\h0200, \h0000)
EXCL_UNLINK == W(\h0400, \h0000)
MASK_CREATE == W(\h1000, \h0000)
MASK_ADD == W(\h2000, \h0000)
ISDIR == W(\h4000, \h0000)
ONESHOT == W(\h8000, \h0000)

\* a union that repeats its left operand
MaskBitOrSelf(a, b) == OrU32(a, a)

\* impl BitAnd / BitOr for Mask
MaskBitAnd(a, b) == AndU32(a, b)
MaskBitOr(a, b) == OrU32(a, b)

\* A relevance mask that leaves out the is-directory bit.
ALL_WithoutIsdir == W(\hB700, \hEFFF)

\* A relevance mask that also compares the unnamed bit 0x1000.
ALL_WithReserved == W(\hF700, \hFFFF)

\* A relevance mask of the event and status bits only.
ALL_EventsOnly == W(\h0000, \hEFFF)

\* PartialEq::eq: const ALL
ALL == W(\hF700, \hEFFF)

\* impl PartialEq for Mask
MaskEq(a, b) == AndU32(a, ALL) = AndU32(b, ALL)

\* Mask::contains: `==` is the PartialEq above, not equality of the raw words
MaskContains(a, b) == MaskEq(MaskBitAnd(a, b), b)

\* impl BitAndAssign / BitOrAssign for Mask: the new value of self
MaskBitAndAssign(a, b) == AndU32(a, b)
MaskBitOrAssign(a, b) == OrU32(a, b)

\* const CHECK, in declared order
CHECK ==
    << [mask |-> ACCESS, repr |-> "ACCESS"],
       [mask |-> MODIFY, repr |-> "MODIFY"],
       [mask |-> ATTRIB, repr |-> "ATTRIB"],
       [mask |-> CLOSE_WRITE, repr |-> "CLOSE_WRITE"],
       [mask |-> CLOSE_NOWRITE, repr |-> "CLOSE_NOWRITE"],
       [mask |-> OPEN, repr |-> "OPEN"],
       [mask |-> MOVED_FROM, repr |-> "MOVED_FROM"],
       [mask |-> MOVED_TO, repr |-> "MOVED_TO"],
       [mask |-> CREATE, repr |-> "CREATE"],
       [mask |-> DELETE, repr |-> "DELETE"],
       [mask |-> DELETE_SELF, repr |-> "DELETE_SELF"],
       [mask |-> MOVE_SELF, repr |-> "MOVE_SELF"],
       [mask |-> UNMOUNT, repr |-> "UNMOUNT"],
       [mask |-> Q_OVERFLOW, repr |-> "Q_OVERFLOW"],
       [mask |-> IGNORED, repr |-> "IGNORED"],
       [mask |-> ONLYDIR, repr |-> "ONLYDIR"],
       [mask |-> DONT_FOLLOW, repr |-> "DONT_FOLLOW"],
       [mask |-> EXCL_UNLINK, repr |-> "EXCL_UNLINK"],
       [mask |-> MASK_CREATE, repr |-> "MASK_CREATE"],
       [mask |-> MASK_ADD, repr |-> "MASK_ADD"],
       [mask |-> ISDIR, repr |-> "ISDIR"],
       [mask |-> ONESHOT, repr |-> "ONESHOT"] >>

\* "{:X}" of a u32: upper-case hexadecimal digits, no leading zeros
HexDigits ==
    <<"0", "1", "2", "3", "4", "5", "6", "7", "8", "9", "A", "B", "C", "D", "E", "F">>

RECURSIVE UpperHex(_, _)
\* n written with at least `width` digits
UpperHex(n, width) ==
    IF n < 16 /\ width <= 1 THEN HexDigits[n + 1]
    ELSE UpperHex(n \div 16, width - 1) \o HexDigits[(n % 16) + 1]

UpperHexU32(w) ==
    IF w.hi = 0 THEN UpperHex(w.lo, 1) ELSE UpperHex(w.hi, 1) \o UpperHex(w.lo, 4)

\* a table entry is listed when the whole word is that flag
FmtTestWholeWord(v, m) == MaskEq(v, m)

\* Debug::fmt: (*self & *mask).0 != 0
FmtTest(v, m) == MaskBitAnd(v, m) # W(0, 0)

RECURSIVE FmtLoop(_, _, _)
\* Debug::fmt: the loop over CHECK from entry k on; one element per write!
FmtLoop(v, k, first) ==
    IF k > Len(CHECK) THEN <<>>
    ELSE IF FmtTest(v, CHECK[k].mask)
         THEN (IF ~first THEN <<" | ">> ELSE <<>>)
              \o <<CHECK[k].repr>> \o FmtLoop(v, k + 1, FALSE)
         ELSE FmtLoop(v, k + 1, first)

\* impl Debug for Mask: the text written, one element per write!
MaskFmt(v) == <<"(" \o UpperHexU32(v) \o ") ">> \o FmtLoop(v, 1, TRUE)

(***************************************************************************)
(* lib.rs: the wire format.  The header is 16 bytes in native byte order   *)
(* (little-endian on the Linux targets): wd, mask, cookie, len.            *)
(***************************************************************************)
\* const SIZE: usize = size_of::<EventHeader>()
SIZE == 16

\* let mut buffer = [0u8; 0x1000]: the capacity of the name buffer
NAME_CAP == 4096

Min(a, b) == IF a < b THEN a ELSE b

\* The four bytes of a word, least significant first.
LE32(w) == << w.lo % 256, w.lo \div 256, w.hi % 256, w.hi \div 256 >>

\* The word read from bytes b[o+1..o+4] (o is a 0-based offset).
WordAt(b, o) == W(b[o + 3] + 256 * b[o + 4], b[o + 1] + 256 * b[o + 2])

\* Two's complement: c_int <-> its 32-bit pattern.
U32OfI32(i) ==
    IF i < 0
    THEN W(65535 - ((-i - 1) \div 65536), 65535 - ((-i - 1) % 65536))
    ELSE W(i \div 65536, i % 65536)
I32OfU32(w) ==
    IF w.hi >= 32768 THEN (w.hi - 65536) * 65536 + w.lo
    ELSE w.hi * 65536 + w.lo

\* #[repr(C)] struct EventHeader { wd: c_int, mask: u32, cookie: u32, len: u32 }
\* let header: EventHeader = unsafe { std::mem::transmute(buffer) }
Transmute(b) ==
    [wd |-> I32OfU32(WordAt(b, 0)), mask |-> WordAt(b, 4),
     cookie |-> WordAt(b, 8), len |-> WordAt(b, 12)]

ZeroHeader == [wd |-> 0, mask |-> W(0, 0), cookie |-> W(0, 0), len |-> W(0, 0)]

\* header.len as usize, compared without leaving the 32-bit integers:
\* total > 0x1000, and total itself when it is not
Oversized(len) == len.hi > 0 \/ len.lo > NAME_CAP
Total(len) == len.lo

(***************************************************************************)
(* The kernel side: the records it queues and the byte stream they make.   *)
(* A record is [wd, mask, cookie, name]; name is the NUL-padded name field *)
(* and the header's len is its length.                                     *)
(***************************************************************************)
KernelEncode(r) ==
    LE32(U32OfI32(r.wd)) \o LE32(r.mask) \o LE32(r.cookie)
    \o LE32(W(Len(r.name) \div 65536, Len(r.name) % 65536)) \o r.name

\* "file" and four bytes of NUL padding, as an IN_MODIFY in a watched directory
R_file == [wd |-> 5, mask |-> MODIFY, cookie |-> W(0, 42),
           name |-> <<102, 105, 108, 101, 0, 0, 0, 0>>]
\* the queue overflow event: wd = -1, no name
R_ovf == [wd |-> -1, mask |-> Q_OVERFLOW, cookie |-> W(0, 0), name |-> <<>>]
\* a name field that fills the name buffer exactly
R_big == [wd |-> 2, mask |-> OrU32(MOVED_TO, ISDIR), cookie |-> W(\h0102, \h0304),
          name |-> [i \in 1..(NAME_CAP - 1) |-> 97] \o <<0>>]
\* a name field one byte longer than the name buffer
R_huge == [wd |-> 3, mask |-> CREATE, cookie |-> W(0, 0),
           name |-> [i \in 1..NAME_CAP |-> 97] \o <<0>>]

Records == << R_file, R_ovf, R_big, R_huge >>
Encoded == << KernelEncode(R_file), KernelEncode(R_ovf),
              KernelEncode(R_big), KernelEncode(R_huge) >>
SmallIds == {1, 2}
LargeIds == {3, 4}

RecSize(id) == Len(Encoded[id])

RECURSIVE FullLen(_)
FullLen(rs) == IF rs = <<>> THEN 0 ELSE RecSize(Head(rs)) + FullLen(Tail(rs))

\* 0-based stream offset of the first header byte of record k
RecStart(rs, k) == FullLen(SubSeq(rs, 1, k - 1))

RECURSIVE ByteIn(_, _)
ByteIn(rs, i) ==
    IF i <= RecSize(Head(rs)) THEN Encoded[Head(rs)][i]
    ELSE ByteIn(Tail(rs), i - RecSize(Head(rs)))

\* the stream delivers cfg.len bytes and is then closed
StreamLen == cfg.len
StreamByte(i) == ByteIn(cfg.recs, i)
Avail == StreamLen - pos

RecSeqs ==
    UNION { [1..n -> SmallIds] : n \in 1..MaxRecords } \cup { <<id>> : id \in LargeIds }

CutLens(rs) ==
    LET last == RecSize(rs[Len(rs)])
        base == FullLen(rs) - last
    IN  {FullLen(rs)} \cup { base + k : k \in {SplitPoint, NameCut} \cap 1..(last - 1) }

Configs == UNION { { [recs |-> rs, len |-> n] : n \in CutLens(rs) } : rs \in RecSeqs }

\* what a read of `want` bytes may deliver when `avail` bytes are there and
\* `a` bytes of the phase are accumulated
Chunks(want, avail, a) ==
    IF a < PartialZone
    THEN ((1..MaxChunk) \cup {SplitPoint, Min(want, avail)}) \cap (1..Min(want, avail))
    ELSE {Min(want, avail)} \cap (1..Min(want, avail))

\* the next n bytes of the stream
ReadChunk(n) == [j \in 1..n |-> StreamByte(pos + j)]

(***************************************************************************)
(* lib.rs: INotify.                                                        *)
(***************************************************************************)
Fds == {3}
WatchIds == {1}
\* EMFILE, ENOMEM
OpenErrnos == {24, 12}
\* EACCES, ENOSPC
AddErrnos == {13, 28}
\* EINVAL
RmErrnos == {22}
\* EIO, EINTR
CloseErrnos == {5, 4}
\* EIO, EINVAL
ReadErrnos == {5, 22}
AddMasks == {MODIFY, OrU32(CREATE, ONLYDIR)}

NoEvent == [wd |-> 0, mask |-> W(0, 0), cookie |-> W(0, 0), path |-> <<>>]
NoFile == [fd |-> -1, owned |-> FALSE]

\* What an operation returned: kind is "Ok", "Err", "Panic", "Pending" (a
\* suspended watch()), "Cancelled" (its future dropped) or "None".  code is
\* the code the returned io::Error carries; errno is the code the OS
\* reported for the failure (observation only).
Ret(op, kind) ==
    [op |-> op, kind |-> kind, code |-> 0, errno |-> 0, wd |-> 0, event |-> NoEvent]
RetErr(op, code, errno) == [Ret(op, "Err") EXCEPT !.code = code, !.errno = errno]

\* io::Error::from_raw_os_error(code)
FromRawOsError(code) == code

ZeroBuffer == [i \in 1..SIZE |-> 0]

\* cancelled: the last call was cancelled (and none was started since), at
\* this stream offset: where it had started plus the bytes it had consumed;
\* resumed: the same for the call before the current/last one; -1: it was not
HistInit ==
    [startPos |-> 0, zeroPhase |-> "none", nameRead |-> FALSE, split |-> FALSE,
     decoded |-> FALSE, len |-> W(0, 0), okCalls |-> 0, faults |-> 0,
     cancelled |-> -1, resumed |-> -1]

MkIdle ==
    [a |-> W(0, 0), b |-> W(0, 0), c |-> W(0, 0), op |-> "none", res |-> FALSE,
     out |-> <<>>]

Init ==
    /\ cfg \in Configs
    /\ pos = 0
    /\ watches = {}
    /\ closeLog = <<>>
    /\ life = "none"
    /\ self = [fd |-> -1, file |-> NoFile]
    /\ pc = "idle"
    /\ buffer = ZeroBuffer
    /\ amt = 0
    /\ header = ZeroHeader
    /\ namebuf = <<>>
    /\ ret = Ret("none", "None")
    /\ hist = HistInit
    /\ mk = MkIdle

kernelVars == <<cfg, pos, watches, closeLog>>
callVars == <<pc, buffer, amt, header, namebuf>>

\* a byte-stream handle over the standard input instead of the descriptor
FromRawFdStdin(fd) == [fd |-> 0, owned |-> TRUE]

\* File::from_raw_fd(fd): the handle owns the descriptor it is given
FromRawFd(fd) == [fd |-> fd, owned |-> TRUE]

\* INotify::new
New ==
    /\ life = "none"
    /\ \/ \E fd \in Fds :
            /\ self' = [fd |-> fd, file |-> FromRawFd(fd)]
            /\ life' = "open"
            /\ ret' = Ret("new", "Ok")
       \/ \E e \in OpenErrnos :
            LET fd == -1 IN
            /\ life' = "failed"
            /\ ret' = RetErr("new", FromRawOsError(fd), e)
            /\ UNCHANGED self
    /\ UNCHANGED <<kernelVars, callVars, hist, mk>>

\* a registration that goes through the byte stream and drains it
AddDrainsStream ==
    /\ life = "open" /\ pc = "idle"
    /\ \E mask \in AddMasks, res \in WatchIds :
            /\ watches' = watches \cup {res}
            /\ ret' = [Ret("add", "Ok") EXCEPT !.wd = res]
    /\ pos' = StreamLen
    /\ UNCHANGED <<cfg, closeLog, life, self, callVars, hist, mk>>

\* INotify::add
Add ==
    /\ life = "open" /\ pc = "idle"
    /\ \E mask \in AddMasks :
       \/ \E res \in WatchIds :
            /\ watches' = watches \cup {res}
            /\ ret' = [Ret("add", "Ok") EXCEPT !.wd = res]
       \/ \E e \in AddErrnos :
            LET res == -1 IN
            /\ ret' = RetErr("add", FromRawOsError(res), e)
            /\ UNCHANGED watches
    /\ UNCHANGED <<cfg, pos, closeLog, life, self, callVars, hist, mk>>

\* INotify::rm
Rm ==
    /\ life = "open" /\ pc = "idle"
    /\ \E wd \in WatchIds \cup {0} :
       IF wd \in watches
       THEN /\ watches' = watches \ {wd}
            /\ ret' = Ret("rm", "Ok")
       ELSE \E e \in RmErrnos :
            LET res == -1 IN
            /\ ret' = RetErr("rm", FromRawOsError(res), e)
            /\ UNCHANGED watches
    /\ UNCHANGED <<cfg, pos, closeLog, life, self, callVars, hist, mk>>

(***************************************************************************)
(* INotify::watch.  The future is suspended only inside a read; one action *)
(* is one completed read together with the code that runs up to the next   *)
(* read, the return or the panic.                                          *)
(***************************************************************************)
\* a read into &mut buf[at..] that delivers `bytes`, stored from index 0
WriteAtStart(buf, at, bytes) ==
    [i \in 1..Len(buf) |-> IF i <= Len(bytes) THEN bytes[i] ELSE buf[i]]

\* a read into &mut buf[at..] that delivers `bytes`
WriteAt(buf, at, bytes) ==
    [i \in 1..Len(buf) |->
        IF at < i /\ i <= at + Len(bytes) THEN bytes[i - at] ELSE buf[i]]

\* the same for the name buffer, of which only the written prefix is kept
NameWriteAt(nb, at, bytes) ==
    [i \in 1..(at + Len(bytes)) |->
        IF i > at THEN bytes[i - at] ELSE IF i <= Len(nb) THEN nb[i] ELSE 0]

\* the most a read into &mut buffer[amt..=end] can deliver
WantInclusive(a, end, cap) == end - a + 1

\* the most a read into &mut buffer[amt..end] can deliver: the whole rest of
\* the buffer instead of the slice
WantWholeBuffer(a, end, cap) == cap - a

\* the most a read into &mut buffer[amt..end] can deliver
Want(a, end, cap) == end - a

\* while amt <= total
NameLoopCondInclusive(a, len) == len.hi > 0 \/ a <= len.lo

\* while amt < total
NameLoopCond(a, len) == len.hi > 0 \/ a < len.lo

\* &buffer[0..total] of the name buffer
NameSlice(nb, total) == [i \in 1..total |-> IF i <= Len(nb) THEN nb[i] ELSE 0]

\* PathBuf::from(OsStr::from_bytes(bytes)): the bytes, unchanged
PathBufFrom(bytes) == bytes

\* Ok(Event { watch: Watch { wd: header.wd }, mask: Mask(header.mask), .. })
MkEvent(h, path) == [wd |-> h.wd, mask |-> h.mask, cookie |-> h.cookie, path |-> path]

\* the calls that returned an event, counted while no call was cut short
Count(h) == IF h.faults = 0 THEN h.okCalls + 1 ELSE 0

\* the call returns: its locals are gone
Return(r) ==
    /\ pc' = "idle"
    /\ buffer' = ZeroBuffer
    /\ amt' = 0
    /\ header' = ZeroHeader
    /\ namebuf' = <<>>
    /\ ret' = r

ReturnEvent(h, nb) ==
    Return([Ret("watch", "Ok") EXCEPT
                !.event = MkEvent(h, PathBufFrom(NameSlice(nb, Total(h.len))))])

\* the first poll: lines 101-105, up to the first read
WatchStart ==
    /\ life = "open" /\ pc = "idle"
    /\ pc' = "header"
    /\ buffer' = ZeroBuffer
    /\ amt' = 0
    /\ header' = ZeroHeader
    /\ namebuf' = <<>>
    /\ ret' = Ret("watch", "Pending")
    /\ hist' = [hist EXCEPT !.startPos = pos, !.zeroPhase = "none",
                            !.nameRead = FALSE, !.split = FALSE,
                            !.decoded = FALSE, !.len = W(0, 0),
                            !.resumed = hist.cancelled, !.cancelled = -1]
    /\ UNCHANGED <<kernelVars, life, self, mk>>

\* a header read delivers n > 0 bytes
HeaderRead ==
    /\ life = "open" /\ pc = "header"
    /\ \E n \in Chunks(Want(amt, SIZE, SIZE), Avail, amt) :
       LET buf2 == WriteAt(buffer, amt, ReadChunk(n))
           amt2 == amt + n
           h == Transmute(buf2)
           split == hist.split \/ (amt2 = SplitPoint)
       IN  /\ pos' = pos + n
           /\ IF amt2 < SIZE
              THEN /\ buffer' = buf2
                   /\ amt' = amt2
                   /\ hist' = [hist EXCEPT !.split = split]
                   /\ UNCHANGED <<pc, header, namebuf, ret>>
              ELSE IF ~NameLoopCond(0, h.len)
              THEN /\ ReturnEvent(h, <<>>)
                   /\ hist' = [hist EXCEPT !.split = split, !.decoded = TRUE,
                                           !.len = h.len,
                                           !.okCalls = Count(hist)]
              ELSE IF Oversized(h.len)
              THEN \* buffer[amt..total]: range end index out of range
                   /\ pc' = "panic"
                   /\ ret' = Ret("watch", "Panic")
                   /\ hist' = [hist EXCEPT !.split = split, !.decoded = TRUE,
                                           !.len = h.len]
                   /\ buffer' = ZeroBuffer
                   /\ amt' = 0
                   /\ header' = h
                   /\ UNCHANGED namebuf
              ELSE /\ pc' = "name"
                   /\ buffer' = buf2
                   /\ amt' = 0
                   /\ header' = h
                   /\ hist' = [hist EXCEPT !.split = split, !.decoded = TRUE,
                                           !.len = h.len, !.nameRead = TRUE]
                   /\ UNCHANGED <<namebuf, ret>>
    /\ UNCHANGED <<cfg, watches, closeLog, life, self, mk>>

\* a name read delivers n > 0 bytes
NameRead ==
    /\ life = "open" /\ pc = "name"
    /\ \E n \in Chunks(Want(amt, Total(header.len), NAME_CAP), Avail, amt) :
       LET nb2 == NameWriteAt(namebuf, amt, ReadChunk(n))
           amt2 == amt + n
       IN  /\ pos' = pos + n
           /\ IF NameLoopCond(amt2, header.len)
              THEN /\ namebuf' = nb2
                   /\ amt' = amt2
                   /\ UNCHANGED <<pc, buffer, header, ret, hist>>
              ELSE /\ ReturnEvent(header, nb2)
                   /\ hist' = [hist EXCEPT !.okCalls = Count(hist)]
    /\ UNCHANGED <<cfg, watches, closeLog, life, self, mk>>

\* a read delivers 0 bytes: the stream is closed (or nothing was asked for);
\* amt += 0 and the loop condition still holds
ReadZero ==
    /\ life = "open" /\ pc \in {"header", "name"}
    /\ \/ Avail = 0
       \/ pc = "name" /\ Want(amt, Total(header.len), NAME_CAP) = 0
    /\ hist' = [hist EXCEPT !.zeroPhase = pc]
    /\ UNCHANGED <<kernelVars, life, self, callVars, ret, mk>>

\* a read reports an error and the loop reads again
ReadErrRetried ==
    /\ life = "open" /\ pc \in {"header", "name"}
    /\ hist.faults < MaxFaults
    /\ \E e \in ReadErrnos : ret' = [ret EXCEPT !.errno = e]
    /\ hist' = [hist EXCEPT !.faults = hist.faults + 1, !.okCalls = 0]
    /\ UNCHANGED <<kernelVars, life, self, callVars, mk>>

\* a read reports an error: `?` returns it
ReadErr ==
    /\ life = "open" /\ pc \in {"header", "name"}
    /\ hist.faults < MaxFaults
    /\ \E e \in ReadErrnos : Return(RetErr("watch", e, e))
    /\ hist' = [hist EXCEPT !.faults = hist.faults + 1, !.okCalls = 0]
    /\ UNCHANGED <<kernelVars, life, self, mk>>

\* the bytes the current/last watch() call has taken from the stream
Consumed == pos - hist.startPos

\* dropping the future gives the bytes it had consumed back to the stream
CancelRewinds ==
    /\ life = "open" /\ pc \in {"header", "name"}
    /\ hist.faults < MaxFaults
    /\ Return(Ret("watch", "Cancelled"))
    /\ hist' = [hist EXCEPT !.faults = hist.faults + 1, !.okCalls = 0,
                            !.cancelled = hist.startPos + Consumed]
    /\ pos' = hist.startPos
    /\ UNCHANGED <<cfg, watches, closeLog, life, self, mk>>

\* the caller drops the suspended future: its locals (buffer, amt, header,
\* the name buffer) are gone, the stream stays where the reads left it
Cancel ==
    /\ life = "open" /\ pc \in {"header", "name"}
    /\ hist.faults < MaxFaults
    /\ Return(Ret("watch", "Cancelled"))
    /\ hist' = [hist EXCEPT !.faults = hist.faults + 1, !.okCalls = 0,
                            !.cancelled = hist.startPos + Consumed]
    /\ UNCHANGED <<kernelVars, life, self, mk>>

(***************************************************************************)
(* INotify::close and the implicit drop.                                   *)
(***************************************************************************)
\* the file handle is dropped at the end of close() instead of forgotten
ForgetDropsLater(f) == f

\* std::mem::forget(self.file): the handle's destructor will never run
Forget(f) == [f EXCEPT !.owned = FALSE]

\* Drop of the File: closes its descriptor if it still owns it
DropFile(f) == IF f.owned THEN <<f.fd>> ELSE <<>>

\* INotify::close, polled to completion
Close ==
    /\ life = "open" /\ pc = "idle"
    /\ LET f2 == Forget(self.file) IN
       /\ self' = [self EXCEPT !.file = f2]
       /\ closeLog' = Append(closeLog, self.fd) \o DropFile(f2)
       /\ \/ ret' = Ret("close", "Ok")
          \/ \E e \in CloseErrnos :
                LET res == -1 IN ret' = RetErr("close", FromRawOsError(res), e)
    /\ life' = "closed"
    /\ UNCHANGED <<cfg, pos, watches, callVars, hist, mk>>

\* the instance goes out of scope (with it a suspended watch() future, or
\* the stack unwinding from a panic): the fields are dropped; nothing is
\* returned, and no call is left to keep a history of
Drop ==
    /\ life = "open"
    /\ closeLog' = closeLog \o DropFile(self.file)
    /\ self' = [self EXCEPT !.file = [self.file EXCEPT !.owned = FALSE]]
    /\ life' = "dropped"
    /\ pc' = "idle"
    /\ buffer' = ZeroBuffer
    /\ amt' = 0
    /\ header' = ZeroHeader
    /\ namebuf' = <<>>
    /\ ret' = Ret("drop", "None")
    /\ hist' = HistInit
    /\ UNCHANGED <<cfg, pos, watches, mk>>

Next ==
    \/ New
    \/ Add
    \/ Rm
    \/ WatchStart
    \/ HeaderRead
    \/ NameRead
    \/ ReadZero
    \/ ReadErr
    \/ Cancel
    \/ Close
    \/ Drop

Spec == Init /\ [][Next]_vars

(***************************************************************************)
(* The Mask operations, applied to operands drawn from a set of flag words *)
(* that covers the named flags, their combinations and the unnamed bits.   *)
(***************************************************************************)
MaskSamples ==
    { W(0, 0), ACCESS, MODIFY, OrU32(MODIFY, ISDIR), OrU32(MODIFY, ONESHOT),
      OrU32(MODIFY, MASK_ADD), OrU32(MODIFY, W(\h0000, \h1000)),
      OrU32(MODIFY, W(\h0800, \h0000)), OrU32(MODIFY, W(\h00FF, \h0000)),
      OrU32(CREATE, ONLYDIR), OrU32(CREATE, DONT_FOLLOW), OrU32(CREATE, EXCL_UNLINK),
      OrU32(CREATE, MASK_CREATE), OrU32(ACCESS, CREATE), CLOSE, MOVE,
      W(\h08FF, \h1000), ALL, W(\hFFFF, \hFFFF) }

\* the third operand of the three-operand laws
MaskThird ==
    { W(0, 0), OrU32(ACCESS, ISDIR), W(\h08FF, \h1000), W(\hFFFF, \hFFFF) }

\* the bit positions of a u32, and the word with only bit i set
BitPositions == 0..31
Bit(i) == IF i < 16 THEN W(0, 2 ^ i) ELSE W(2 ^ (i - 16), 0)

\* bit i of w
BitOf(w, i) == IF i < 16 THEN (w.lo \div 2 ^ i) % 2 ELSE (w.hi \div 2 ^ (i - 16)) % 2

\* w with bit i toggled
FlipBit(w, i) ==
    IF BitOf(w, i) = 1
    THEN IF i < 16 THEN W(w.hi, w.lo - 2 ^ i) ELSE W(w.hi - 2 ^ (i - 16), w.lo)
    ELSE OrU32(w, Bit(i))

InitMask ==
    /\ cfg = [recs |-> <<1>>, len |-> RecSize(1)]
    /\ pos = 0
    /\ watches = {}
    /\ closeLog = <<>>
    /\ life = "none"
    /\ self = [fd |-> -1, file |-> NoFile]
    /\ pc = "idle"
    /\ buffer = ZeroBuffer
    /\ amt = 0
    /\ header = ZeroHeader
    /\ namebuf = <<>>
    /\ ret = Ret("none", "None")
    /\ hist = HistInit
    /\ mk \in { [MkIdle EXCEPT !.a = x, !.b = y, !.c = z] :
                    x \in MaskSamples, y \in MaskSamples, z \in MaskThird }

\* a == b
MaskEqCall ==
    /\ mk.op = "none"
    /\ mk' = [mk EXCEPT !.op = "eq", !.res = MaskEq(mk.a, mk.b)]
    /\ UNCHANGED <<kernelVars, life, self, callVars, ret, hist>>

\* a.contains(b)
MaskContainsCall ==
    /\ mk.op = "none"
    /\ mk' = [mk EXCEPT !.op = "contains", !.res = MaskContains(mk.a, mk.b)]
    /\ UNCHANGED <<kernelVars, life, self, callVars, ret, hist>>

\* a == b, and again after bit i of a, or of b, was toggled
MaskEqToggle ==
    /\ mk.op = "none"
    /\ \E i \in BitPositions :
         mk' = [mk EXCEPT !.op = "toggle",
                          !.out = [i |-> i,
                                   aa |-> MaskEq(mk.a, mk.a),
                                   eq |-> MaskEq(mk.a, mk.b),
                                   ta |-> MaskEq(FlipBit(mk.a, i), mk.b),
                                   tb |-> MaskEq(mk.a, FlipBit(mk.b, i))]]
    /\ UNCHANGED <<kernelVars, life, self, callVars, ret, hist>>

\* a == b, and a == a' for every a' that differs from a in one bit position:
\* the positions where the comparison still holds are the ignored ones
MaskEqBits ==
    /\ mk.op = "none"
    /\ mk' = [mk EXCEPT !.op = "eqbits",
                        !.out = [eq |-> MaskEq(mk.a, mk.b),
                                 ignored |-> { i \in BitPositions :
                                                 MaskEq(mk.a, FlipBit(mk.a, i)) }]]
    /\ UNCHANGED <<kernelVars, life, self, callVars, ret, hist>>

\* a | b, a & b and their compositions; a |= b, a &= b; contains on them
MaskAlgebra ==
    /\ mk.op = "none"
    /\ LET a == mk.a
           b == mk.b
           c == mk.c
       IN mk' = [mk EXCEPT
            !.op = "algebra",
            !.out = [or_ab |-> MaskBitOr(a, b), or_ba |-> MaskBitOr(b, a),
                     and_ab |-> MaskBitAnd(a, b), and_ba |-> MaskBitAnd(b, a),
                     or_aa |-> MaskBitOr(a, a), and_aa |-> MaskBitAnd(a, a),
                     or_ab_c |-> MaskBitOr(MaskBitOr(a, b), c),
                     or_a_bc |-> MaskBitOr(a, MaskBitOr(b, c)),
                     and_ab_c |-> MaskBitAnd(MaskBitAnd(a, b), c),
                     and_a_bc |-> MaskBitAnd(a, MaskBitAnd(b, c)),
                     or_assign |-> MaskBitOrAssign(a, b),
                     and_assign |-> MaskBitAndAssign(a, b),
                     or_has_a |-> MaskContains(MaskBitOr(a, b), a),
                     or_has_b |-> MaskContains(MaskBitOr(a, b), b),
                     a_has_and |-> MaskContains(a, MaskBitAnd(a, b)),
                     b_has_and |-> MaskContains(b, MaskBitAnd(a, b)),
                     a_has_a |-> MaskContains(a, a)]]
    /\ UNCHANGED <<kernelVars, life, self, callVars, ret, hist>>

\* format!("{:?}", a)
MaskFmtCall ==
    /\ mk.op = "none"
    /\ mk' = [mk EXCEPT !.op = "fmt", !.out = MaskFmt(mk.a)]
    /\ UNCHANGED <<kernelVars, life, self, callVars, ret, hist>>

NextMask ==
    \/ MaskEqCall
    \/ MaskContainsCall
    \/ MaskEqToggle
    \/ MaskEqBits
    \/ MaskAlgebra
    \/ MaskFmtCall

SpecMask == InitMask /\ [][NextMask]_vars

(***************************************************************************)
(* Properties.                                                             *)
(***************************************************************************)
\* the last operation was a watch() that returned an event
RetOk == ret.op = "watch" /\ ret.kind = "Ok"

\* the record the kernel queued k-th
Rec(k) == Records[cfg.recs[k]]

\* the latest watch() call started at the first header byte of record k
StartedAt(k) == hist.startPos = RecStart(cfg.recs, k)

\* record k lies wholly in the stream before it closes
Delivered(k) == RecStart(cfg.recs, k + 1) <= StreamLen

\* the name length the stream declares for a record that starts at offset s
LenAt(s) == StreamByte(s + 13) + 256 * StreamByte(s + 14)

\* a name field without its trailing NUL bytes
RECURSIVE TrimNul(_)
TrimNul(b) ==
    IF b # <<>> /\ b[Len(b)] = 0 THEN TrimNul(SubSeq(b, 1, Len(b) - 1)) ELSE b

NotU32(w) == W(65535 - w.hi, 65535 - w.lo)

\* the is-directory bit and the registration-only modifier bits
Decoration ==
    OrU32(ISDIR, OrU32(ONLYDIR, OrU32(DONT_FOLLOW, OrU32(EXCL_UNLINK,
        OrU32(MASK_CREATE, OrU32(MASK_ADD, ONESHOT))))))

\* the bits of all the named flags
NamedFlags ==
    OrU32(ACCESS, OrU32(MODIFY, OrU32(ATTRIB, OrU32(CLOSE_WRITE,
    OrU32(CLOSE_NOWRITE, OrU32(OPEN, OrU32(MOVED_FROM, OrU32(MOVED_TO,
    OrU32(CREATE, OrU32(DELETE, OrU32(DELETE_SELF, OrU32(MOVE_SELF,
    OrU32(UNMOUNT, OrU32(Q_OVERFLOW, OrU32(IGNORED, Decoration)))))))))))))))

\* C1: a zero-byte read in the header phase, with fewer than 16 bytes
\* accumulated, makes the call fail with a decode error: it is not still
\* reading, and it has returned no event.
C1_HeaderTruncationFails ==
    (ret.op = "watch" /\ hist.zeroPhase = "header") =>
        pc = "idle" /\ ret.kind = "Err"

\* C2: a zero-byte read in the name phase, with fewer than L name bytes
\* accumulated, makes the call fail with a decode error: it is not still
\* reading, and it has returned no event.
C2_NameTruncationFails ==
    (ret.op = "watch" /\ hist.zeroPhase = "name") =>
        pc = "idle" /\ ret.kind = "Err"

\* C3: a header that declares a name longer than the name buffer makes the
\* call return an error value, without a panic and without a name read; a
\* declared length of exactly the buffer's capacity starts the name phase.
C3_OversizedNameIsAnError ==
    (ret.op = "watch" /\ hist.decoded) =>
        /\ Oversized(hist.len) => ret.kind = "Err" /\ ~hist.nameRead
        /\ hist.len = W(0, NAME_CAP) => ret.kind # "Panic" /\ hist.nameRead

\* C4: a call that starts at the first byte of a record's header and returns
\* an event returns the event of that record - wd, mask and cookie from the
\* header's first three fields, the path from the name field - whatever the
\* sizes of the reads that delivered the bytes; and while the record's
\* bytes are there (name within the buffer) the call neither panics nor
\* meets the end of the stream.
C4_ReassemblyAcrossPartialReads ==
    \A k \in 1..Len(cfg.recs) :
        StartedAt(k) =>
            /\ RetOk =>
                 ret.event = [wd |-> Rec(k).wd, mask |-> Rec(k).mask,
                              cookie |-> Rec(k).cookie, path |-> Rec(k).name]
            /\ (ret.op = "watch" /\ Delivered(k) /\ Len(Rec(k).name) <= NAME_CAP) =>
                 pc # "panic" /\ hist.zeroPhase = "none"

\* C4 witness: the record (wd 5, MODIFY, cookie 42, "file" padded to 8) was
\* returned by a call whose header arrived split at byte 10.
C4_Witness ==
    /\ RetOk /\ hist.split /\ hist.startPos = 0 /\ cfg.recs[1] = 1
    /\ ret.event.wd = 5 /\ ret.event.mask = MODIFY /\ ret.event.cookie = W(0, 42)

\* C5: the path of the event returned for a record with a name field of
\* L > 0 bytes is the name field without its trailing NUL bytes.
C5_PathIsTrimmed ==
    \A k \in 1..Len(cfg.recs) :
        (RetOk /\ StartedAt(k) /\ Len(Rec(k).name) > 0) =>
            ret.event.path = TrimNul(Rec(k).name)

\* C6: a call that returns an event has consumed exactly the 16 header
\* bytes and the L name bytes its header declares; and the n-th call of a
\* run of calls that all returned events started at the first header byte
\* of the n-th record, returned that record and left the stream at the
\* first header byte of the next.
C6_OneRecordPerCall ==
    RetOk =>
        /\ pos = hist.startPos + SIZE + LenAt(hist.startPos)
        /\ hist.faults = 0 =>
              /\ hist.okCalls \in 1..Len(cfg.recs)
              /\ StartedAt(hist.okCalls)
              /\ ret.event.wd = Rec(hist.okCalls).wd
              /\ ret.event.cookie = Rec(hist.okCalls).cookie
              /\ pos = RecStart(cfg.recs, hist.okCalls + 1)

\* C6 witness: the second of two calls returned the second record (the
\* queue overflow), the first having returned "file" and left the second
\* record's bytes in the stream.
C6_Witness ==
    /\ RetOk /\ hist.faults = 0 /\ hist.okCalls = 2 /\ cfg.recs[1] = 1
    /\ ret.event.wd = -1 /\ pos = RecSize(1) + SIZE

\* C7: once a header with name length 0 is decoded the call has returned an
\* event with the empty path, having consumed the 16 header bytes and
\* issued no read for the name.
C7_ZeroNameNoRead ==
    (ret.op = "watch" /\ hist.decoded /\ hist.len = W(0, 0)) =>
        /\ pc = "idle" /\ ret.kind = "Ok"
        /\ ret.event.path = <<>>
        /\ ~hist.nameRead
        /\ pos = hist.startPos + SIZE

\* C7 witness: the queue-overflow record (no name) was returned while the
\* stream still had bytes to deliver.
C7_Witness ==
    /\ RetOk /\ hist.decoded /\ hist.len = W(0, 0) /\ ~hist.nameRead
    /\ ret.event.wd = -1 /\ Avail > 0

\* C8: the descriptor is passed to an OS-level close exactly once when the
\* instance's life has ended by close() or by drop, and never before;
\* close() leaves the stream handle without ownership, whatever the close
\* reported.
C8_ClosedExactlyOnce ==
    /\ life \in {"closed", "dropped"} => closeLog = <<self.fd>>
    /\ life \in {"none", "failed", "open"} => closeLog = <<>>
    /\ life = "closed" => ~self.file.owned /\ ret.op = "close"

\* C8 witness: close() reported an error after an event had been decoded and
\* a watch registered.
C8_Witness ==
    /\ life = "closed" /\ ret.kind = "Err" /\ Len(closeLog) = 1
    /\ hist.okCalls > 0 /\ watches # {}

\* C9: an error returned by new, add, rm or close carries the error code the
\* OS reported for the failed call.
C9_OsErrorCodePreserved ==
    (ret.kind = "Err" /\ ret.op \in {"new", "add", "rm", "close"}) =>
        ret.code = ret.errno

\* C10 as claimed: flag words that differ only in the is-directory bit and
\* the registration-only modifier bits compare equal.
C10_EqualityIgnoresDecoration ==
    (mk.op = "eq"
     /\ AndU32(mk.a, NotU32(Decoration)) = AndU32(mk.b, NotU32(Decoration)))
        => mk.res

\* C10 amended: flag words that differ only in bits of no named flag
\* compare equal, and flag words that differ in the is-directory bit or in
\* a registration-only modifier bit compare unequal.
C10_EqualityComparesDecoration ==
    mk.op = "eq" =>
        /\ AndU32(mk.a, NamedFlags) = AndU32(mk.b, NamedFlags) => mk.res
        /\ AndU32(mk.a, Decoration) # AndU32(mk.b, Decoration) => ~mk.res

\* C10 witness: MODIFY|ISDIR was compared with MODIFY and found unequal.
C10_Witness ==
    /\ mk.op = "eq" /\ mk.a = OrU32(MODIFY, ISDIR) /\ mk.b = MODIFY /\ ~mk.res

\* the bit positions that belong to no named flag
UnnamedPositions == { i \in BitPositions : AndU32(Bit(i), NamedFlags) = W(0, 0) }

\* the bit positions where a and b differ
DifferAt(a, b) == { i \in BitPositions : BitOf(a, i) # BitOf(b, i) }

\* C11: contains(self, other) is true if and only if every bit set in other
\* is also set in self, for all 32-bit words, unnamed bits included.
C11_ContainsIsBitwiseInclusion ==
    mk.op = "contains" => (mk.res <=> AndU32(mk.a, mk.b) = mk.b)

\* C12: a word equals itself; toggling in a or in b a bit that belongs to no
\* named flag never changes a == b; words that agree on every named-flag bit
\* compare equal, and words that differ on a named-flag bit compare unequal.
C12_EqualityByRelevanceMask ==
    mk.op = "toggle" =>
        /\ mk.out.aa
        /\ mk.out.i \in UnnamedPositions =>
               mk.out.ta = mk.out.eq /\ mk.out.tb = mk.out.eq
        /\ mk.out.eq <=> AndU32(mk.a, NamedFlags) = AndU32(mk.b, NamedFlags)

\* C12 witness: an unnamed bit (0x1000) toggled in one of two words that
\* differ in that bit only; they compared equal before and after.
C12_Witness ==
    /\ mk.op = "toggle" /\ mk.out.i = 12
    /\ mk.a = MODIFY /\ mk.b = OrU32(MODIFY, W(\h0000, \h1000))
    /\ mk.out.eq /\ mk.out.ta /\ mk.out.tb

\* C13 as stated: equality ignores exactly three bit positions, and each of
\* the other 29, when it differs between a and b, makes a == b false.
C13_ExactlyThreeIgnored ==
    mk.op = "eqbits" =>
        /\ Cardinality(mk.out.ignored) = 3
        /\ Cardinality(BitPositions \ mk.out.ignored) = 29
        /\ DifferAt(mk.a, mk.b) \ mk.out.ignored # {} => ~mk.out.eq

\* C13 amended: equality ignores exactly the ten bit positions that belong
\* to no named flag (bit 12, bits 16..23 and bit 27), and each of the other
\* 22, when it differs between a and b, makes a == b false.
C13_ExactlyTenIgnored ==
    mk.op = "eqbits" =>
        /\ mk.out.ignored = {12} \cup 16..23 \cup {27}
        /\ mk.out.ignored = UnnamedPositions
        /\ Cardinality(mk.out.ignored) = 10
        /\ Cardinality(BitPositions \ mk.out.ignored) = 22
        /\ DifferAt(mk.a, mk.b) \ mk.out.ignored # {} => ~mk.out.eq

\* C13 witness: two words that differ in ignored positions only (all ten of
\* them) compared equal.
C13_Witness ==
    /\ mk.op = "eqbits"
    /\ mk.a = W(0, 0) /\ mk.b = W(\h08FF, \h1000)
    /\ DifferAt(mk.a, mk.b) = mk.out.ignored
    /\ mk.out.eq

\* C14: a | b contains a and b; a and b each contain a & b; a contains a;
\* | and & are commutative, associative and idempotent on the raw word; and
\* a |= b, a &= b leave in a the value of a | b, a & b.
C14_BooleanAlgebraLaws ==
    mk.op = "algebra" =>
        /\ mk.out.or_has_a /\ mk.out.or_has_b
        /\ mk.out.a_has_and /\ mk.out.b_has_and
        /\ mk.out.a_has_a
        /\ mk.out.or_ab = mk.out.or_ba /\ mk.out.and_ab = mk.out.and_ba
        /\ mk.out.or_ab_c = mk.out.or_a_bc /\ mk.out.and_ab_c = mk.out.and_a_bc
        /\ mk.out.or_aa = mk.a /\ mk.out.and_aa = mk.a
        /\ mk.out.or_assign = mk.out.or_ab /\ mk.out.and_assign = mk.out.and_ab
        /\ \A i \in BitPositions :
              /\ BitOf(mk.out.or_ab, i) = 1 <=> BitOf(mk.a, i) = 1 \/ BitOf(mk.b, i) = 1
              /\ BitOf(mk.out.and_ab, i) = 1 <=> BitOf(mk.a, i) = 1 /\ BitOf(mk.b, i) = 1

\* C14 witness: the laws evaluated on three different words, among them
\* words with unnamed bits.
C14_Witness ==
    /\ mk.op = "algebra"
    /\ mk.a = OrU32(MODIFY, W(\h0000, \h1000)) /\ mk.b = OrU32(CREATE, ONLYDIR)
    /\ mk.c = OrU32(ACCESS, ISDIR)
    /\ mk.out.or_ab = W(\h0100, \h1102) /\ mk.out.and_ab = W(0, 0)
    /\ mk.out.or_ab_c = W(\h4100, \h1103)

\* the names of the CHECK entries, from entry k on, whose bits are all set in v
RECURSIVE ContainedNames(_, _)
ContainedNames(v, k) ==
    IF k > Len(CHECK) THEN <<>>
    ELSE (IF AndU32(v, CHECK[k].mask) = CHECK[k].mask THEN <<CHECK[k].repr>> ELSE <<>>)
         \o ContainedNames(v, k + 1)

\* the names with a separator between neighbours
RECURSIVE Joined(_, _)
Joined(names, sep) ==
    IF Len(names) <= 1 THEN names
    ELSE <<Head(names), sep>> \o Joined(Tail(names), sep)

\* C15: what is rendered after the raw hex value is exactly the names of the
\* CHECK entries whose bits are all set in the word, each once, in declared
\* order, joined by " | ", and no name of an entry with no bit set.
C15_RenderingListsContainedFlags ==
    mk.op = "fmt" =>
        /\ Len(mk.out) >= 1
        /\ Tail(mk.out) = Joined(ContainedNames(mk.a, 1), " | ")
        /\ \A k \in 1..Len(CHECK) :
              AndU32(mk.a, CHECK[k].mask) = W(0, 0) =>
                  \A j \in 1..Len(mk.out) : mk.out[j] # CHECK[k].repr

\* C15 witness: ACCESS | CREATE rendered as its hex value, ACCESS, CREATE.
C15_Witness ==
    /\ mk.op = "fmt" /\ mk.a = OrU32(ACCESS, CREATE)
    /\ mk.out = <<"(101) ", "ACCESS", " | ", "CREATE">>

\* the n stream bytes that follow stream offset s, and the header they make
StreamSlice(s, n) == [j \in 1..n |-> StreamByte(s + j)]
HeaderAt(s) == Transmute(StreamSlice(s, SIZE))

\* C16: when a read of watch() reports an error, in the header phase or in
\* the name phase, the call is over at once and returns that error: no
\* event, no read left pending, nothing retried.
C16_ReadErrorPropagates ==
    (ret.op = "watch" /\ ret.errno # 0) =>
        /\ pc = "idle" /\ amt = 0 /\ buffer = ZeroBuffer /\ namebuf = <<>>
        /\ ret.kind = "Err" /\ ret.code = ret.errno
        /\ ret.event = NoEvent

\* C16 witness: a read of the name phase failed with EINVAL after the header
\* and part of the name had been consumed.
C16_Witness ==
    /\ ret.op = "watch" /\ ret.kind = "Err" /\ ret.code = 22
    /\ hist.nameRead /\ Consumed > SIZE

\* C17: the bytes a cancelled call had consumed are neither restored nor
\* carried over: the next call starts a fresh header phase at the stream
\* offset where the cancelled call stopped and takes the 16 bytes that follow
\* for a header; if that offset is the start of a record (the cancelled call
\* had consumed nothing of it) the next call decodes that record.
C17_CancellationDesynchronises ==
    hist.resumed >= 0 =>
        /\ hist.startPos = hist.resumed
        /\ pc = "header" =>
              /\ pos = hist.resumed + amt
              /\ \A i \in 1..SIZE :
                    buffer[i] = IF i <= amt THEN StreamByte(hist.resumed + i) ELSE 0
        /\ hist.decoded => hist.len = HeaderAt(hist.resumed).len
        /\ pc \in {"name", "panic"} => header = HeaderAt(hist.resumed)
        /\ RetOk =>
              LET h == HeaderAt(hist.resumed) IN
              /\ ret.event.wd = h.wd /\ ret.event.mask = h.mask
              /\ ret.event.cookie = h.cookie
              /\ ret.event.path = StreamSlice(hist.resumed + SIZE, Total(h.len))
        /\ \A j \in 1..Len(cfg.recs) :
              (RetOk /\ hist.resumed = RecStart(cfg.recs, j)) =>
                  ret.event = [wd |-> Rec(j).wd, mask |-> Rec(j).mask,
                               cookie |-> Rec(j).cookie, path |-> Rec(j).name]

\* C17 witness: the first call was cancelled SplitPoint (10) bytes into the
\* record (wd 5, MODIFY, cookie 42, "file"); the next call took the bytes
\* from offset 10 for a header: wd 0x00080000, mask and cookie made of the
\* letters of the name, and a name length that makes it panic.
C17_Witness ==
    /\ hist.resumed = SplitPoint /\ cfg.recs[1] = 1
    /\ pc = "panic"
    /\ header.wd = 524288
    /\ header.mask = W(\h6966, \h0000)
    /\ header.cookie = W(\h0000, \h656C)

\* a watch() that returned an event in a run without faults returned the
\* whole record the kernel queued at that place
DecodedAsQueued ==
    (RetOk /\ hist.faults = 0) =>
        ret.event = [wd |-> Rec(hist.okCalls).wd, mask |-> Rec(hist.okCalls).mask,
                     cookie |-> Rec(hist.okCalls).cookie,
                     path |-> Rec(hist.okCalls).name]

\* C18: add and rm, succeeding or failing (the steps that leave "add" or
\* "rm" in ret.op), leave the stream position, the stream, the stored
\* descriptor and handle and the decoder's state as they were; and whatever
\* add/rm calls come between watch() calls, the k-th event is the k-th record.
C18_RegistrationLeavesDecoder ==
    /\ [][ret'.op \in {"add", "rm"} =>
             /\ pos' = pos /\ cfg' = cfg /\ self' = self
             /\ UNCHANGED callVars /\ hist' = hist]_vars
    /\ []DecodedAsQueued

\* C18 witness: an add failed, after an add that succeeded, between the
\* first watch() call and the next, with a record still to be decoded.
C18_Witness ==
    /\ ret.op = "add" /\ ret.kind = "Err" /\ watches # {}
    /\ hist.okCalls = 1 /\ pos = RecSize(cfg.recs[1]) /\ Avail > 0

\* C19: the bytes accumulated in the current phase stay below the phase's
\* target while the phase lasts (16, then the header's name length), every
\* byte taken from the stream is one of them, and a call that returns an
\* event has taken exactly 16 bytes plus the name length.
C19_BoundedAccumulation ==
    /\ pc = "header" => amt < SIZE /\ Consumed = amt
    /\ pc = "name" =>
          /\ amt < Total(header.len) /\ Total(header.len) <= NAME_CAP
          /\ Len(namebuf) = amt
          /\ Consumed = SIZE + amt
    /\ RetOk => Consumed = SIZE + Len(ret.event.path)

\* C19 witness: the name phase of an 8-byte name with 2 bytes accumulated,
\* after a header that came in pieces.
C19_Witness ==
    /\ pc = "name" /\ hist.split
    /\ Total(header.len) = 8 /\ amt = 2 /\ Consumed = SIZE + 2

\* C20: while the instance is open, the raw descriptor and the descriptor
\* of the byte-stream handle are the same one, the one the open returned,
\* and no operation that leaves the instance open changes either.
C20_SingleDescriptorIdentity ==
    /\ [](life = "open" =>
             self.fd = self.file.fd /\ self.fd \in Fds /\ self.file.owned)
    /\ [][(life = "open" /\ life' = "open") => self' = self]_vars

\* C20 witness: still the one descriptor after events were decoded, a watch
\* was added and an rm failed.
C20_Witness ==
    /\ life = "open" /\ self.fd = 3 /\ self.file.fd = 3
    /\ ret.op = "rm" /\ ret.kind = "Err" /\ hist.okCalls > 0 /\ watches # {}

====
